---- MODULE Spec2Model ----
(***************************************************************************)
(* The bulk-load pipeline of the NYC taxi repository:                      *)
(*   src/src/import_to_postgres.py   PostgresImporter                      *)
(*   src/src/import_to_duckdb.py     DuckDBImporter                        *)
(*   src/api/app/routes.py           run_pipeline                          *)
(*   src/src/download_data.py        NYCTaxiDataDownloader                 *)
(* A pipeline run is a process p that walks through the code statement by  *)
(* statement; pc[p] is its position.  The database is the committed        *)
(* contents of yellow_taxi_trips and import_log plus, per connection, the  *)
(* uncommitted writes of its open transaction.  Any statement that talks   *)
(* to the database or reads a file may raise; a raise is a fault, and the  *)
(* number of faults in one behaviour is capped by MaxFaults.               *)
(***************************************************************************)
EXTENDS Integers, Sequences, FiniteSets

\* ------------------------------------------------------------------ bounds
\* Source files (months) that may lie in data/raw.
NumFiles == 3
\* Rows of a file range over 0..MaxRows.
MaxRows == 2
\* Exceptions raised in one behaviour.
MaxFaults == 2
\* Pipeline runs one process makes in sequence.
MaxRuns == 2
\* Source files of the two concurrent runs.
RaceFiles == 1
\* Exceptions raised in one behaviour of the two concurrent runs.
RaceFaults == 1
\* Exceptions raised in one behaviour of the repeated and of the interrupted runs.
RerunFaults == 1
\* Rows of the source table of the chunked loader.
MaxSource == 3
\* Exceptions raised in one call of the chunked loader.
LoaderFaults == 1
\* Largest precision and scale of the parameterized types tried.
MaxPrecision == 2
\* Requests the API serves, months its pipeline asks for, exceptions raised
\* and pipeline runs beside the requests.
MaxRequests == 1
ApiFiles == 1
ApiFaults == 1
ApiRuns == 1
\* Columns and rows of the tables whose values the chunked loader copies.
MaxColumns == 2
CopyRows == 2
\* Exceptions raised in one behaviour of the schema initialisations.
SchemaFaults == 1

Files == 1..NumFiles

Procs == {1, 2}

\* The rows of file f: file f holds NRows(f) rows, each named by file and index.
NRows(f) == f % (MaxRows + 1)

FileRows(f) == [i \in 1..NRows(f) |-> <<f, i>>]

VARIABLES
    backend,            \* "postgres" | "duckdb": which importer class runs
    entry,              \* "script" (the module's __main__) | "api" (run_pipeline)
                        \* | "call" (another caller of the importer class)
    current_month,      \* the downloader asks for the months 1..current_month
    limits,             \* [faults, runs]: the caps of this behaviour
    tables,             \* yellow_taxi_trips and import_log exist
    columns,            \* the column names of yellow_taxi_trips, {} without table
    yellow_taxi_trips,  \* committed rows, in insertion order
    import_log,         \* committed ledger rows [file_name, rows_imported]
    data_dir_exists,    \* data_dir.is_dir()
    raw,                \* the .parquet files in data_dir
    pc,                 \* pc[p]: position of run p in the code
    loc,                \* loc[p]: the locals and attributes of run p
    tx,                 \* tx[p]: the open transaction of p's connection
    faults,             \* exceptions raised so far
    gh,                 \* gh[p]: history of run p, read only by the properties
    prevFailed,         \* files whose import_parquet failed in an earlier run
                        \* (history, kept only where runs are repeated on purpose)
    dl,                 \* the downloader: a call of download_all_available
    ld,                 \* the chunked loader: a call of Loader.load_table
    svc,                \* the API service: its last request on /trips
    mp                  \* a call of SchemaMapper.to_postgres

dbVars == <<tables, columns, yellow_taxi_trips, import_log>>

fsVars == <<data_dir_exists, raw>>

cfgVars == <<backend, entry, current_month, limits>>

\* The programs beside the pipeline run; a pipeline run changes none of them.
progVars == <<dl, ld, svc, mp>>

sideVars == <<progVars, prevFailed>>

\* What the programs beside the pipeline run never touch.
runVars == <<pc, loc, tx, gh, prevFailed>>

vars == <<backend, entry, current_month, limits, tables, columns, yellow_taxi_trips,
          import_log,
          data_dir_exists, raw, pc, loc, tx, faults, gh, prevFailed, dl, ld, svc, mp>>

\* The programs beside the pipeline run, when they are not running.
\*   month             the month download_all_available is at
\*   downloaded_files  the list it returns
\*   partial           the file of `month` is open for writing, not complete
\*   truncated         the months whose file was left incomplete on the disk
\*                     by a process that ended while it wrote the file
\*   fetched, pre      history: the months requested from the server; the
\*                     files present when the call began
NoDl == [pc |-> "idle", month |-> 0, downloaded_files |-> <<>>, partial |-> FALSE,
         truncated |-> {}, fetched |-> {}, pre |-> {}]

\* max_rows: int | None = None
NoMaxRows == -1

\*   chunk_size, max_rows  the arguments of load_table
\*   source                the rows of the DuckDB table, in its order
\*   dest                  the committed rows of the PostgreSQL table
\*   described             the column names describe_table finds in the source
\*   columns               the column names of the PostgreSQL table, {} without
\*   offset, total, lim, df  the locals of load_table
\*   pre, offsets, raisedAt  history: dest when the call began; the offsets of
\*                         the batches copied; the statement that raised
NoLd == [pc |-> "idle", chunk_size |-> 0, max_rows |-> NoMaxRows, source |-> <<>>,
         dest |-> <<>>, offset |-> 0, total |-> 0, lim |-> 0, df |-> <<>>,
         described |-> {}, columns |-> {},
         pre |-> <<>>, offsets |-> <<>>, raisedAt |-> ""]

\*   pc         "down" before main.py has run, "up" while the API serves
\*   id_column  yellow_taxi_trips has the id column of models.YellowTaxiTrip
\*              (it was created by create_all, not by the importer)
\*   requests   requests served
\*   op         history: the last operation of the API
NoSvc == [pc |-> "down", id_column |-> FALSE, requests |-> 0, op |-> ""]

\*   duck_type  the data_type of a column as describe_table returned it
\*   pg_type    what SchemaMapper.to_postgres answered
NoMp == [pc |-> "idle", duck_type |-> <<>>, pg_type |-> <<>>]

\* ------------------------------------------------------------ the database
NoTx == [active |-> FALSE, rows |-> <<>>, log |-> <<>>]

\* Mutant of CountTrips: the count is made on another connection and does not
\* see the rows of p's open transaction.
CountTripsOtherConnection(p) == Len(yellow_taxi_trips)

\* SELECT COUNT(1) FROM yellow_taxi_trips on p's connection: the committed rows
\* and the rows p's own transaction has written.
CountTrips(p) == Len(yellow_taxi_trips) + Len(tx[p].rows)

\* The file names in a sequence of ledger rows.
Names(log) == {log[i].file_name : i \in 1..Len(log)}

\* SELECT ... FROM import_log WHERE file_name = f, when the read succeeds.
LedgerHas(f) == f \in Names(import_log)

\* Mutant of UniqueViolation: import_log has no primary key.
NoPrimaryKey(p, f) == FALSE

\* import_log.file_name is PRIMARY KEY: an INSERT of f is a unique violation
\* when a committed row, or a row of the same transaction, has that name.
UniqueViolation(p, f) == f \in Names(import_log) \cup Names(tx[p].log)

\* PostgreSQL makes an INSERT of a key wait while another open transaction
\* holds an uncommitted row with that key.
KeyLockedByOther(p, f) ==
    \E q \in Procs \ {p} : tx[q].active /\ f \in Names(tx[q].log)

\* COMMIT: the transaction's rows and ledger rows become durable together.
CommittedTrips(p) == yellow_taxi_trips \o tx[p].rows

CommittedLog(p) == import_log \o tx[p].log

\* ------------------------------------------------------------- the locals
\* The locals of a run that has not begun: no file (0), no count and no
\* return value yet (-1).
InitLoc == [run |-> 0, downloaded_files |-> {}, todo |-> {}, file_path |-> 0,
            was_already_imported |-> FALSE, success |-> FALSE,
            newly_imported_count |-> 0, count_before |-> -1,
            rows_imported |-> -1, ret |-> -1, message |-> ""]

\* The history of a run, for the properties only:
\*   startTrips, startLog  the committed tables when the run began
\*   found                 the files import_all_parquet_files listed
\*   initFailed            _initialize_database raised in this run
\*   downloads, inits      calls of download_all_available and of
\*                         _initialize_database in this run
\*   calls                 calls of import_parquet in this run
\*   failed, skipped       files whose import_parquet failed / skipped
\*   imported              files whose import_parquet committed their transfer
\* and of the current call of import_parquet:
\*   preTrips, preLog      the committed tables when it was called
\*   preHas                import_log held the file's entry when it was called
\*   lookupFailed          its is_file_imported raised
\*   callFaults            exceptions raised before it was called
\*   stale                 its transaction began with the file's entry committed
\*   written               rows its transaction had written when it was rolled back
\*   outcome               "skipped" | "running" | "imported" | "failed" | "raised"
\*                         | "interrupted"

InitGh == [startTrips |-> <<>>, startLog |-> <<>>, found |-> {},
           initFailed |-> FALSE, downloads |-> 0, inits |-> 0,
           calls |-> 0, failed |-> {}, skipped |-> {},
           imported |-> {}, callFaults |-> 0,
           preTrips |-> <<>>, preLog |-> <<>>, preHas |-> FALSE, stale |-> FALSE,
           lookupFailed |-> FALSE, outcome |-> "none", written |-> 0]

\* One more exception is raised.
Fault == faults < limits.faults /\ faults' = faults + 1

NoFault == faults' = faults

\* ------------------------------------------------------------ run_pipeline
\* A run begins: the script's __main__, or a POST /pipeline/run.
BeginRun(p) ==
    /\ pc[p] \in {"idle", "done", "exited"}
    /\ loc[p].run < limits.runs
    /\ pc' = [pc EXCEPT ![p] = CASE entry = "api" -> "download"
                                  [] entry = "script" -> "mkdir"
                                  [] OTHER -> "construct"]
    /\ loc' = [loc EXCEPT ![p] = [InitLoc EXCEPT !.run = loc[p].run + 1]]
    /\ gh' = [gh EXCEPT ![p] = [InitGh EXCEPT !.startTrips = yellow_taxi_trips,
                                              !.startLog = import_log]]
    /\ UNCHANGED <<cfgVars, progVars, dbVars, fsVars, tx, faults>>

StartRun(p) == BeginRun(p) /\ UNCHANGED prevFailed

\* The same, in a behaviour that keeps the history of the earlier runs.
Rerun(p) == BeginRun(p) /\ prevFailed' = prevFailed \cup gh[p].failed

\* __main__ of either importer module: DATA_DIR.mkdir(exist_ok=True).
MainMkdir(p) ==
    /\ pc[p] = "mkdir"
    /\ data_dir_exists' = TRUE
    /\ pc' = [pc EXCEPT ![p] = "construct"]
    /\ UNCHANGED <<cfgVars, sideVars, dbVars, raw, loc, tx, faults, gh>>

\* NYCTaxiDataDownloader(): DATA_DIR.mkdir; download_all_available(): a month
\* whose file exists is kept, a missing month is fetched, and a fetch that
\* fails leaves no file.  The months obtained are returned.
download_all_available(p) ==
    /\ pc[p] = "download"
    /\ \E got \in SUBSET ((1..current_month) \ raw) :
          LET lost == ((1..current_month) \ raw) \ got
          IN  /\ faults + Cardinality(lost) <= limits.faults
              /\ faults' = faults + Cardinality(lost)
              /\ raw' = raw \cup got
              /\ loc' = [loc EXCEPT ![p].downloaded_files = raw \cup got]
    /\ data_dir_exists' = TRUE
    /\ pc' = [pc EXCEPT ![p] = "construct"]
    /\ gh' = [gh EXCEPT ![p].downloads = @ + 1]
    /\ UNCHANGED <<cfgVars, sideVars, dbVars, tx>>

\* Mutant of Construct: __init__ does not call _initialize_database.
ConstructWithoutInitialize(p) ==
    /\ pc[p] = "construct"
    /\ pc' = [pc EXCEPT ![p] = "import_all"]
    /\ NoFault
    /\ UNCHANGED <<cfgVars, sideVars, dbVars, fsVars, loc, tx, gh>>

\* __init__: the connection is made.
Construct(p) ==
    /\ pc[p] = "construct"
    /\ pc' = [pc EXCEPT ![p] = "initialize"]
    /\ NoFault
    /\ UNCHANGED <<cfgVars, sideVars, dbVars, fsVars, loc, tx, gh>>

\* __init__: connecting raises, the handler calls sys.exit(1).
ConstructFails(p) ==
    /\ pc[p] = "construct"
    /\ Fault
    /\ pc' = [pc EXCEPT ![p] = "exited"]
    /\ UNCHANGED <<cfgVars, sideVars, dbVars, fsVars, loc, tx, gh>>

\* PostgresImporter._initialize_database reads a sample file first and raises
\* FileNotFoundError when data/raw holds none; DuckDBImporter's has no such step.
SampleMissing == backend = "postgres" /\ (~data_dir_exists \/ raw = {})

\* The columns of the parquet file of month f, after inflection.underscore: the
\* files of the last month carry a column the earlier ones do not have.
ColumnsOf(f) ==
    IF f = NumFiles THEN {"vendor_id", "fare_amount", "cbd_congestion_fee"}
    ELSE {"vendor_id", "fare_amount"}

\* The columns DuckDBImporter._initialize_database writes out.
DuckColumns == {"VendorID", "fare_amount", "cbd_congestion_fee"}

\* sample_file = sorted(data_dir.glob("*.parquet"))[0]
SampleFile == CHOOSE f \in raw : \A g \in raw : f <= g

\* The column list _initialize_database derives now.
DerivedColumns == IF backend = "duckdb" THEN DuckColumns ELSE ColumnsOf(SampleFile)

\* The columns of a table that exists when the behaviour begins: those an
\* earlier _initialize_database of the same importer class gave it.
InitColumns ==
    IF ~tables THEN {}
    ELSE IF backend = "duckdb" THEN DuckColumns ELSE ColumnsOf(1)

\* Mutant of CreateTableIfNotExists: CREATE OR REPLACE TABLE.
CreateOrReplaceTable(exists, existing, cols) == cols

\* CREATE TABLE IF NOT EXISTS t (cols): t gets the columns cols when it does
\* not exist and keeps its own when it does.
CreateTableIfNotExists(exists, existing, cols) == IF exists THEN existing ELSE cols

\* _initialize_database: CREATE TABLE IF NOT EXISTS for both tables.
InitializeDatabase(p) ==
    /\ pc[p] = "initialize"
    /\ ~SampleMissing
    /\ NoFault
    /\ tables' = TRUE
    /\ columns' = CreateTableIfNotExists(tables, columns, DerivedColumns)
    /\ pc' = [pc EXCEPT ![p] = "import_all"]
    /\ gh' = [gh EXCEPT ![p].inits = @ + 1]
    /\ UNCHANGED <<cfgVars, sideVars, yellow_taxi_trips, import_log, fsVars, loc, tx>>

\* _initialize_database raises: its own handler prints the error and returns,
\* so __init__ returns normally.
InitializeDatabaseFails(p) ==
    /\ pc[p] = "initialize"
    /\ IF SampleMissing THEN NoFault ELSE Fault
    /\ pc' = [pc EXCEPT ![p] = "import_all"]
    /\ gh' = [gh EXCEPT ![p].initFailed = TRUE, ![p].inits = @ + 1]
    /\ UNCHANGED <<cfgVars, sideVars, dbVars, fsVars, loc, tx>>

\* ------------------------------------------------- import_all_parquet_files
\* if not data_dir.is_dir(): return 0
NoDataDir(p) ==
    /\ pc[p] = "import_all"
    /\ ~data_dir_exists
    /\ loc' = [loc EXCEPT ![p].ret = 0]
    /\ pc' = [pc EXCEPT ![p] = "close"]
    /\ UNCHANGED <<cfgVars, sideVars, dbVars, fsVars, tx, faults, gh>>

\* Mutant of NoParquetFiles: the absence of files is reported with a value of
\* its own.
NoParquetFilesReported(p) ==
    /\ pc[p] = "import_all"
    /\ data_dir_exists /\ raw = {}
    /\ loc' = [loc EXCEPT ![p].ret = -1]
    /\ pc' = [pc EXCEPT ![p] = "close"]
    /\ UNCHANGED <<cfgVars, sideVars, dbVars, fsVars, tx, faults, gh>>

\* if not parquet_files: return 0
NoParquetFiles(p) ==
    /\ pc[p] = "import_all"
    /\ data_dir_exists /\ raw = {}
    /\ loc' = [loc EXCEPT ![p].ret = 0]
    /\ pc' = [pc EXCEPT ![p] = "close"]
    /\ UNCHANGED <<cfgVars, sideVars, dbVars, fsVars, tx, faults, gh>>

\* parquet_files = list(data_dir.glob("*.parquet")); newly_imported_count = 0
StartLoop(p) ==
    /\ pc[p] = "import_all"
    /\ data_dir_exists /\ raw # {}
    /\ loc' = [loc EXCEPT ![p].todo = raw, ![p].newly_imported_count = 0]
    /\ gh' = [gh EXCEPT ![p].found = raw]
    /\ pc' = [pc EXCEPT ![p] = "loop"]
    /\ UNCHANGED <<cfgVars, sideVars, dbVars, fsVars, tx, faults>>

\* Mutant of is_file_imported: a lookup that raises answers True.
is_file_imported_true_on_error(f, r) ==
    \/ tables /\ r = LedgerHas(f) /\ NoFault
    \/ tables /\ r = TRUE /\ Fault
    \/ ~tables /\ r = TRUE /\ NoFault

\* Mutant of is_file_imported: the lookup never finds the entry.
is_file_imported_never(f, r) == r = FALSE /\ NoFault

\* is_file_imported(filename) answers r: the ledger's answer when the SELECT
\* succeeds, False when it raises (a fault, or import_log does not exist).
is_file_imported(f, r) ==
    \/ tables /\ r = LedgerHas(f) /\ NoFault
    \/ tables /\ r = FALSE /\ Fault
    \/ ~tables /\ r = FALSE /\ NoFault

\* for file_path in parquet_files (glob gives the files in no fixed order):
\*     was_already_imported = self.is_file_imported(file_path.name)
LoopIteration(p) ==
    /\ pc[p] = "loop"
    /\ \E f \in loc[p].todo, r \in BOOLEAN :
          /\ is_file_imported(f, r)
          /\ loc' = [loc EXCEPT ![p].todo = @ \ {f}, ![p].file_path = f,
                                ![p].was_already_imported = r]
    /\ pc' = [pc EXCEPT ![p] = "import_parquet"]
    /\ UNCHANGED <<cfgVars, sideVars, dbVars, fsVars, tx, gh>>

\* Mutant of NewlyImported: every success counts, a skip too.
NewlyImportedAnySuccess(count, success, was_already_imported) ==
    IF success THEN count + 1 ELSE count

\* Mutant of NewlyImported: a file counts when the check before the call said
\* it was not imported, whether its import succeeded or not.
NewlyImportedNoSuccess(count, success, was_already_imported) ==
    IF ~was_already_imported THEN count + 1 ELSE count

\* The value of newly_imported_count after one iteration of the loop.
NewlyImported(count, success, was_already_imported) ==
    IF success /\ ~was_already_imported THEN count + 1 ELSE count

\* success = self.import_parquet(file_path) has returned:
\*     if success and not was_already_imported: newly_imported_count += 1
LoopCount(p) ==
    /\ pc[p] = "returned"
    /\ loc' = [loc EXCEPT ![p].newly_imported_count =
                  NewlyImported(@, loc[p].success, loc[p].was_already_imported)]
    /\ pc' = [pc EXCEPT ![p] = "loop"]
    /\ UNCHANGED <<cfgVars, sideVars, dbVars, fsVars, tx, faults, gh>>

\* The loop is over: return newly_imported_count
LoopEnd(p) ==
    /\ pc[p] = "loop"
    /\ loc[p].todo = {}
    /\ loc' = [loc EXCEPT ![p].ret = loc[p].newly_imported_count]
    /\ pc' = [pc EXCEPT ![p] = "close"]
    /\ UNCHANGED <<cfgVars, sideVars, dbVars, fsVars, tx, faults, gh>>

\* importer.close(), which drops a transaction left open, and run_pipeline's
\* response.
Close(p) ==
    /\ pc[p] = "close"
    /\ loc' = [loc EXCEPT ![p].message =
                  IF entry = "api" THEN "Pipeline executed" ELSE ""]
    /\ tx' = [tx EXCEPT ![p] = NoTx]
    /\ pc' = [pc EXCEPT ![p] = "done"]
    /\ UNCHANGED <<cfgVars, sideVars, dbVars, fsVars, faults, gh>>

\* An exception has left import_all_parquet_files: __main__ prints it and its
\* finally closes the connection, which drops an open transaction.
MainExcept(p) ==
    /\ pc[p] = "escaped"
    /\ tx' = [tx EXCEPT ![p] = NoTx]
    /\ pc' = [pc EXCEPT ![p] = "exited"]
    /\ UNCHANGED <<cfgVars, sideVars, dbVars, fsVars, loc, faults, gh>>

\* ----------------------------------------------------------- import_parquet
\* The statement after p's current one inside the try block.
FirstInTry == IF backend = "postgres" THEN "read_parquet" ELSE "begin"

\* if self.is_file_imported(filename): return True
ImportParquetCheck(p) ==
    /\ pc[p] = "import_parquet"
    /\ \E r \in BOOLEAN :
          /\ is_file_imported(loc[p].file_path, r)
          /\ loc' = [loc EXCEPT ![p].success = r]
          /\ pc' = [pc EXCEPT ![p] = IF r THEN "returned" ELSE FirstInTry]
          /\ gh' = [gh EXCEPT ![p].calls = @ + 1,
                              ![p].preTrips = yellow_taxi_trips,
                              ![p].preLog = import_log,
                              ![p].preHas = LedgerHas(loc[p].file_path),
                              ![p].stale = FALSE,
                              ![p].written = 0,
                              ![p].callFaults = faults,
                              ![p].lookupFailed = (~tables \/ faults' # faults),
                              ![p].outcome = IF r THEN "skipped" ELSE "running",
                              ![p].skipped = IF r THEN @ \cup {loc[p].file_path} ELSE @]
    /\ UNCHANGED <<cfgVars, sideVars, dbVars, fsVars, tx>>

\* PostgresImporter: df = pd.read_parquet(file_path), before any transaction.
ReadParquet(p) ==
    /\ pc[p] = "read_parquet"
    /\ \/ NoFault /\ pc' = [pc EXCEPT ![p] = "begin"]
       \/ Fault /\ pc' = [pc EXCEPT ![p] = "except"]
    /\ UNCHANGED <<cfgVars, sideVars, dbVars, fsVars, loc, tx, gh>>

\* with self.engine.begin() as conn / self.conn.execute("BEGIN TRANSACTION")
\* A connection that still has a transaction open (DuckDB: 'cannot start a
\* transaction within a transaction') raises at BEGIN.
Begin(p) ==
    /\ pc[p] = "begin"
    /\ \/ /\ ~tx[p].active
          /\ NoFault
          /\ tx' = [tx EXCEPT ![p] = [NoTx EXCEPT !.active = TRUE]]
          /\ gh' = [gh EXCEPT ![p].stale = LedgerHas(loc[p].file_path)]
          /\ pc' = [pc EXCEPT ![p] = "count_before"]
       \/ /\ IF tx[p].active THEN NoFault ELSE Fault
          /\ pc' = [pc EXCEPT ![p] = "except"]
          /\ UNCHANGED <<tx, gh>>
    /\ UNCHANGED <<cfgVars, sideVars, dbVars, fsVars, loc>>

\* count_before = SELECT COUNT(1) FROM yellow_taxi_trips
CountBefore(p) ==
    /\ pc[p] = "count_before"
    /\ \/ /\ tables /\ NoFault
          /\ loc' = [loc EXCEPT ![p].count_before = CountTrips(p)]
          /\ pc' = [pc EXCEPT ![p] = "insert"]
       \/ /\ IF tables THEN Fault ELSE NoFault
          /\ pc' = [pc EXCEPT ![p] = "except"]
          /\ UNCHANGED loc
    /\ UNCHANGED <<cfgVars, sideVars, dbVars, fsVars, tx, gh>>

\* df.to_sql('yellow_taxi_trips', conn, if_exists='append') /
\* INSERT INTO yellow_taxi_trips SELECT * FROM read_parquet(?):
\* every row of the file is written inside the transaction.
InsertRows(p) ==
    /\ pc[p] = "insert"
    /\ NoFault
    /\ tx' = [tx EXCEPT ![p].rows = @ \o FileRows(loc[p].file_path)]
    /\ pc' = [pc EXCEPT ![p] = "count_after"]
    /\ UNCHANGED <<cfgVars, sideVars, dbVars, fsVars, loc, gh>>

\* Mutant of InsertRowsFails: the error of the insert is swallowed and the
\* transfer goes on with the k rows written.
InsertRowsFailsSwallowed(p) ==
    /\ pc[p] = "insert"
    /\ Fault
    /\ \E k \in 0..NRows(loc[p].file_path) :
          tx' = [tx EXCEPT ![p].rows = @ \o SubSeq(FileRows(loc[p].file_path), 1, k)]
    /\ pc' = [pc EXCEPT ![p] = "count_after"]
    /\ UNCHANGED <<cfgVars, sideVars, dbVars, fsVars, loc, gh>>

\* Mutant of InsertRowsFails: the rows are written outside the transaction
\* (to_sql given the engine instead of conn), so the k rows stay.
InsertRowsFailsAutocommit(p) ==
    /\ pc[p] = "insert"
    /\ Fault
    /\ \E k \in 0..NRows(loc[p].file_path) :
          yellow_taxi_trips' =
              yellow_taxi_trips \o SubSeq(FileRows(loc[p].file_path), 1, k)
    /\ pc' = [pc EXCEPT ![p] = "except"]
    /\ UNCHANGED <<cfgVars, sideVars, tables, columns, import_log, fsVars, loc, tx, gh>>

\* The insert raises after k rows (an unreadable file, a row the table
\* rejects, a lost connection).
InsertRowsFails(p) ==
    /\ pc[p] = "insert"
    /\ Fault
    /\ \E k \in 0..NRows(loc[p].file_path) :
          tx' = [tx EXCEPT ![p].rows = @ \o SubSeq(FileRows(loc[p].file_path), 1, k)]
    /\ pc' = [pc EXCEPT ![p] = "except"]
    /\ UNCHANGED <<cfgVars, sideVars, dbVars, fsVars, loc, gh>>

\* Mutant of RowsImported: the count before the transfer is not subtracted.
RowsImportedNoBefore(count_after, count_before_) == count_after

\* rows_imported = count_after - count_before
RowsImported(count_after, count_before_) == count_after - count_before_

\* count_after = SELECT COUNT(1) FROM yellow_taxi_trips
CountAfter(p) ==
    /\ pc[p] = "count_after"
    /\ \/ /\ NoFault
          /\ loc' = [loc EXCEPT ![p].rows_imported =
                        RowsImported(CountTrips(p), loc[p].count_before)]
          /\ pc' = [pc EXCEPT ![p] = "insert_log"]
       \/ /\ Fault
          /\ pc' = [pc EXCEPT ![p] = "except"]
          /\ UNCHANGED loc
    /\ UNCHANGED <<cfgVars, sideVars, dbVars, fsVars, tx, gh>>

\* The ledger row the INSERT writes.
LogRow(p) == [file_name |-> loc[p].file_path, rows_imported |-> loc[p].rows_imported]

\* INSERT INTO import_log (file_name, rows_imported) VALUES (...)
InsertLog(p) ==
    /\ pc[p] = "insert_log"
    /\ ~KeyLockedByOther(p, loc[p].file_path)
    /\ ~UniqueViolation(p, loc[p].file_path)
    /\ NoFault
    /\ tx' = [tx EXCEPT ![p].log = Append(@, LogRow(p))]
    /\ pc' = [pc EXCEPT ![p] = "commit"]
    /\ UNCHANGED <<cfgVars, sideVars, dbVars, fsVars, loc, gh>>

\* Mutant of InsertLogConflict: the conflict is passed over (ON CONFLICT DO
\* NOTHING) and the transfer goes on to its commit.
InsertLogConflictIgnored(p) ==
    /\ pc[p] = "insert_log"
    /\ ~KeyLockedByOther(p, loc[p].file_path)
    /\ UniqueViolation(p, loc[p].file_path)
    /\ NoFault
    /\ pc' = [pc EXCEPT ![p] = "commit"]
    /\ UNCHANGED <<cfgVars, sideVars, dbVars, fsVars, loc, tx, gh>>

\* The INSERT is rejected by the primary key of import_log.
InsertLogConflict(p) ==
    /\ pc[p] = "insert_log"
    /\ ~KeyLockedByOther(p, loc[p].file_path)
    /\ UniqueViolation(p, loc[p].file_path)
    /\ NoFault
    /\ pc' = [pc EXCEPT ![p] = "except"]
    /\ UNCHANGED <<cfgVars, sideVars, dbVars, fsVars, loc, tx, gh>>

\* The INSERT raises for another reason.
InsertLogFails(p) ==
    /\ pc[p] = "insert_log"
    /\ Fault
    /\ pc' = [pc EXCEPT ![p] = "except"]
    /\ UNCHANGED <<cfgVars, sideVars, dbVars, fsVars, loc, tx, gh>>

\* The end of the with block / self.conn.execute("COMMIT"); return True
Commit(p) ==
    /\ pc[p] = "commit"
    /\ NoFault
    /\ yellow_taxi_trips' = CommittedTrips(p)
    /\ import_log' = CommittedLog(p)
    /\ tx' = [tx EXCEPT ![p] = NoTx]
    /\ loc' = [loc EXCEPT ![p].success = TRUE]
    /\ gh' = [gh EXCEPT ![p].outcome = "imported",
                        ![p].imported = @ \cup {loc[p].file_path}]
    /\ pc' = [pc EXCEPT ![p] = "returned"]
    /\ UNCHANGED <<cfgVars, sideVars, tables, columns, fsVars>>

\* Mutant of CommitFails: the ledger row was written outside the transaction
\* and stays when the commit fails.
CommitFailsLedgerKept(p) ==
    /\ pc[p] = "commit"
    /\ Fault
    /\ import_log' = CommittedLog(p)
    /\ tx' = [tx EXCEPT ![p] = NoTx]
    /\ pc' = [pc EXCEPT ![p] = "except"]
    /\ UNCHANGED <<cfgVars, sideVars, tables, columns, yellow_taxi_trips, fsVars, loc, gh>>

\* The commit raises: nothing of the transaction is kept, and the connection
\* has no open transaction afterwards.
CommitFails(p) ==
    /\ pc[p] = "commit"
    /\ Fault
    /\ tx' = [tx EXCEPT ![p] = NoTx]
    /\ pc' = [pc EXCEPT ![p] = "except"]
    /\ UNCHANGED <<cfgVars, sideVars, dbVars, fsVars, loc, gh>>

\* What the except clauses leave of p's transaction: the with block of
\* PostgresImporter has rolled it back, DuckDBImporter executes ROLLBACK.
RolledBack(p) == NoTx

\* except ...: (roll back;) return False
Except(p) ==
    /\ pc[p] = "except"
    /\ backend = "postgres" \/ tx[p].active
    /\ NoFault
    /\ tx' = [tx EXCEPT ![p] = RolledBack(p)]
    /\ loc' = [loc EXCEPT ![p].success = FALSE]
    /\ gh' = [gh EXCEPT ![p].failed = @ \cup {loc[p].file_path},
                        ![p].outcome = "failed",
                        ![p].written = Len(tx[p].rows)]
    /\ pc' = [pc EXCEPT ![p] = "returned"]
    /\ UNCHANGED <<cfgVars, sideVars, dbVars, fsVars>>

\* DuckDBImporter: the ROLLBACK of the except clause raises (no transaction is
\* open after a failed BEGIN or COMMIT; or the ROLLBACK itself fails), and the
\* exception leaves import_parquet and the loop of import_all_parquet_files.
ExceptRaises(p) ==
    /\ pc[p] = "except"
    /\ backend = "duckdb"
    /\ IF tx[p].active THEN Fault ELSE NoFault
    /\ gh' = [gh EXCEPT ![p].failed = @ \cup {loc[p].file_path},
                        ![p].outcome = "raised"]
    /\ pc' = [pc EXCEPT ![p] = "escaped"]
    /\ UNCHANGED <<cfgVars, sideVars, dbVars, fsVars, loc, tx>>

\* The statements of import_parquet's try block.
InFlight == {"read_parquet", "begin", "count_before", "insert", "count_after",
             "insert_log", "commit"}

\* The transfer is interrupted (KeyboardInterrupt, or a cancellation raised in
\* the thread): a BaseException, which neither except clause of import_parquet
\* catches.  PostgresImporter's with block rolls the transaction back on its
\* way out; DuckDBImporter executes no ROLLBACK, its transaction stays open.
\* An interrupted INSERT has written k rows.  The exception leaves
\* import_parquet and the loop.
Interrupt(p) ==
    /\ pc[p] \in InFlight
    /\ Fault
    /\ \E k \in 0..(IF pc[p] = "insert" THEN NRows(loc[p].file_path) ELSE 0) :
          LET rows == tx[p].rows \o SubSeq(FileRows(loc[p].file_path), 1, k)
          IN  /\ tx' = [tx EXCEPT ![p] = IF backend = "postgres" THEN NoTx
                                         ELSE [@ EXCEPT !.rows = rows]]
              /\ gh' = [gh EXCEPT ![p].outcome = "interrupted",
                                  ![p].written = Len(rows)]
    /\ pc' = [pc EXCEPT ![p] = "escaped"]
    /\ UNCHANGED <<cfgVars, sideVars, dbVars, fsVars, loc>>

\* A caller of the importer class that catches the interrupt and goes on to
\* the following files with the same importer.
CallerContinues(p) ==
    /\ pc[p] = "escaped"
    /\ entry = "call"
    /\ gh[p].outcome = "interrupted"
    /\ pc' = [pc EXCEPT ![p] = "loop"]
    /\ UNCHANGED <<cfgVars, sideVars, dbVars, fsVars, loc, tx, faults, gh>>

\* ------------------------------------------------------------ the downloader
\* NYCTaxiDataDownloader(): DATA_DIR.mkdir(parents=True, exist_ok=True), and
\* the head of download_all_available: downloaded_files = [], month = 1.
NYCTaxiDataDownloader ==
    /\ dl.pc = "idle"
    /\ data_dir_exists' = TRUE
    /\ dl' = [NoDl EXCEPT !.pc = "loop", !.month = 1, !.pre = raw,
                          !.truncated = dl.truncated]
    /\ UNCHANGED <<cfgVars, dbVars, raw, runVars, faults, ld, svc, mp>>

\* self.file_exists(month)
file_exists(month) ==
    month \in raw \/ month \in dl.truncated \/ (dl.partial /\ dl.month = month)

\* download_month(month), first part: the file exists, return True without a
\* request (the month is appended to downloaded_files); or go on to fetch it.
download_month ==
    /\ dl.pc = "loop"
    /\ dl.month <= current_month
    /\ dl' = IF file_exists(dl.month)
             THEN [dl EXCEPT !.downloaded_files = Append(@, dl.month),
                             !.month = @ + 1]
             ELSE [dl EXCEPT !.pc = "get"]
    /\ UNCHANGED <<cfgVars, dbVars, fsVars, runVars, faults, ld, svc, mp>>

\* requests.get(url, stream=True); r.raise_for_status(); open(file_path, 'wb'):
\* the request is answered and the file is created, or a RequestException is
\* raised before any file exists.
RequestsGet ==
    /\ dl.pc = "get"
    /\ \/ /\ NoFault
          /\ dl' = [dl EXCEPT !.pc = "write", !.partial = TRUE,
                              !.fetched = @ \cup {dl.month}]
       \/ /\ Fault
          /\ dl' = [dl EXCEPT !.pc = "except", !.fetched = @ \cup {dl.month}]
    /\ UNCHANGED <<cfgVars, dbVars, fsVars, runVars, ld, svc, mp>>

\* for chunk in r.iter_content(): f.write(chunk) -- the body is written to
\* its end and download_month returns True, or the stream breaks (a
\* RequestException) and leaves a partial file.
IterContent ==
    /\ dl.pc = "write"
    /\ \/ /\ NoFault
          /\ raw' = raw \cup {dl.month}
          /\ dl' = [dl EXCEPT !.pc = "loop", !.partial = FALSE,
                              !.downloaded_files = Append(@, dl.month),
                              !.month = @ + 1]
       \/ /\ Fault
          /\ dl' = [dl EXCEPT !.pc = "except"]
          /\ raw' = raw
    /\ UNCHANGED <<cfgVars, dbVars, data_dir_exists, runVars, ld, svc, mp>>

\* The process ends while the body is written: it is killed, or f.write
\* raises an error that is not a RequestException (the disk is full), which no
\* handler of download_month catches.  The file stays as far as it was
\* written, under its final name; the downloader can be started again.
WriteCutShort ==
    /\ dl.pc = "write"
    /\ Fault
    /\ dl' = [dl EXCEPT !.pc = "idle", !.partial = FALSE,
                        !.truncated = @ \cup {dl.month}]
    /\ UNCHANGED <<cfgVars, dbVars, fsVars, runVars, ld, svc, mp>>

\* Mutant of RequestException: the partial file is not deleted.
RequestExceptionKeepsFile ==
    /\ dl.pc = "except"
    /\ dl' = [dl EXCEPT !.pc = "loop", !.month = @ + 1]
    /\ UNCHANGED <<cfgVars, dbVars, fsVars, runVars, faults, ld, svc, mp>>

\* except requests.exceptions.RequestException:
\*     if file_path.exists(): file_path.unlink()
\*     return False          (the month is not appended)
RequestException ==
    /\ dl.pc = "except"
    /\ dl' = [dl EXCEPT !.pc = "loop", !.partial = FALSE, !.month = @ + 1]
    /\ UNCHANGED <<cfgVars, dbVars, fsVars, runVars, faults, ld, svc, mp>>

\* The for loop of download_all_available is over: return downloaded_files
DownloadReturn ==
    /\ dl.pc = "loop"
    /\ dl.month > current_month
    /\ dl' = [dl EXCEPT !.pc = "done"]
    /\ UNCHANGED <<cfgVars, dbVars, fsVars, runVars, faults, ld, svc, mp>>

\* -------------------------------------------------------------------- the API
\* main.py: Base.metadata.create_all(bind=engine) -- CREATE TABLE for the
\* tables of models.py that do not exist; no row is touched.  When it raises,
\* the module is not imported and the API does not start.
\* The columns of models.YellowTaxiTrip.
ModelColumns == {"id", "vendor_id", "fare_amount", "cbd_congestion_fee"}

create_all ==
    /\ svc.pc = "down"
    /\ \/ /\ NoFault
          /\ tables' = TRUE
          /\ columns' = CreateTableIfNotExists(tables, columns, ModelColumns)
          /\ svc' = [svc EXCEPT !.pc = "up", !.op = "create_all",
                                !.id_column = IF tables THEN @ ELSE TRUE]
       \/ /\ Fault
          /\ svc' = [svc EXCEPT !.pc = "failed", !.op = "create_all"]
          /\ UNCHANGED <<tables, columns>>
    /\ UNCHANGED <<cfgVars, yellow_taxi_trips, import_log, fsVars, runVars, dl, ld, mp>>

Serving == svc.pc = "up" /\ svc.requests < MaxRequests

\* GET /trips, GET /trips/{trip_id}, GET /statistics: queries only.
get_trips ==
    /\ Serving
    /\ NoFault
    /\ svc' = [svc EXCEPT !.requests = @ + 1, !.op = "get_trips"]
    /\ UNCHANGED <<cfgVars, dbVars, fsVars, runVars, dl, ld, mp>>

\* The row a request body describes: it belongs to no file.
TripOf(n) == <<0, n>>

\* Mutant of create_trip: the request also writes an entry of import_log.
create_trip_logged ==
    /\ Serving
    /\ svc.id_column
    /\ NoFault
    /\ yellow_taxi_trips' = Append(yellow_taxi_trips, TripOf(svc.requests + 1))
    /\ import_log' = Append(import_log, [file_name |-> 0, rows_imported |-> 1])
    /\ svc' = [svc EXCEPT !.requests = @ + 1, !.op = "create_trip"]
    /\ UNCHANGED <<cfgVars, tables, columns, fsVars, runVars, dl, ld, mp>>

\* POST /trips: db.add(new_trip); db.commit().  The INSERT returns the id, so
\* it fails on a table that has no id column, as does every query by id.
create_trip ==
    /\ Serving
    /\ \/ /\ svc.id_column
          /\ NoFault
          /\ yellow_taxi_trips' = Append(yellow_taxi_trips, TripOf(svc.requests + 1))
       \/ /\ IF svc.id_column THEN Fault ELSE NoFault
          /\ UNCHANGED yellow_taxi_trips
    /\ svc' = [svc EXCEPT !.requests = @ + 1, !.op = "create_trip"]
    /\ UNCHANGED <<cfgVars, tables, columns, import_log, fsVars, runVars, dl, ld, mp>>

\* PUT /trips/{trip_id}: the row with that id, imported or not, takes the
\* values of the body; an unknown id answers None (404).
update_trip ==
    /\ Serving
    /\ \E trip_id \in 1..(Len(yellow_taxi_trips) + 1) :
         \/ /\ svc.id_column
            /\ NoFault
            /\ yellow_taxi_trips' =
                 IF trip_id <= Len(yellow_taxi_trips)
                 THEN [yellow_taxi_trips EXCEPT ![trip_id] = TripOf(svc.requests + 1)]
                 ELSE yellow_taxi_trips
         \/ /\ IF svc.id_column THEN Fault ELSE NoFault
            /\ UNCHANGED yellow_taxi_trips
    /\ svc' = [svc EXCEPT !.requests = @ + 1, !.op = "update_trip"]
    /\ UNCHANGED <<cfgVars, tables, columns, import_log, fsVars, runVars, dl, ld, mp>>

\* DELETE /trips/{trip_id}: db.delete(existing_trip); db.commit().
delete_trip ==
    /\ Serving
    /\ \E trip_id \in 1..(Len(yellow_taxi_trips) + 1) :
         \/ /\ svc.id_column
            /\ NoFault
            /\ yellow_taxi_trips' =
                 IF trip_id <= Len(yellow_taxi_trips)
                 THEN SubSeq(yellow_taxi_trips, 1, trip_id - 1)
                        \o SubSeq(yellow_taxi_trips, trip_id + 1, Len(yellow_taxi_trips))
                 ELSE yellow_taxi_trips
         \/ /\ IF svc.id_column THEN Fault ELSE NoFault
            /\ UNCHANGED yellow_taxi_trips
    /\ svc' = [svc EXCEPT !.requests = @ + 1, !.op = "delete_trip"]
    /\ UNCHANGED <<cfgVars, tables, columns, import_log, fsVars, runVars, dl, ld, mp>>

\* -------------------------------------------------------- the chunked loader
Min(a, b) == IF a < b THEN a ELSE b

Max(a, b) == IF a > b THEN a ELSE b

\* load_table, up to the loop: sync_table_schema (CREATE SCHEMA / CREATE TABLE
\* IF NOT EXISTS, rows untouched), offset = 0, total = 0.  load_table has no
\* handler: an exception of any statement leaves it.
load_table ==
    /\ ld.pc = "called"
    /\ \/ /\ NoFault
          /\ ld' = [ld EXCEPT !.pc = "head", !.offset = 0, !.total = 0,
                               !.columns = CreateTableIfNotExists(@ # {}, @, ld.described)]
       \/ /\ Fault
          /\ ld' = [ld EXCEPT !.pc = "raised", !.raisedAt = "sync_table_schema"]
    /\ UNCHANGED <<cfgVars, dbVars, fsVars, runVars, dl, svc, mp>>

\* remaining = None if max_rows is None else max(0, max_rows - total)
remaining == IF ld.max_rows = NoMaxRows THEN NoMaxRows
             ELSE Max(0, ld.max_rows - ld.total)

\* Mutant of lim: the batch size does not look at what remains of max_rows.
limWholeChunk == ld.chunk_size

\* lim = chunk_size if remaining is None else min(chunk_size, remaining)
lim == IF remaining = NoMaxRows THEN ld.chunk_size ELSE Min(ld.chunk_size, remaining)

\* while True: ...; if lim == 0: break
LoopHead ==
    /\ ld.pc = "head"
    /\ ld' = [ld EXCEPT !.lim = lim, !.pc = IF lim = 0 THEN "done" ELSE "read"]
    /\ UNCHANGED <<cfgVars, dbVars, fsVars, runVars, faults, dl, svc, mp>>

\* SELECT * FROM source LIMIT limit OFFSET offset
Chunk(source, limit, offset) ==
    SubSeq(source, offset + 1, Min(offset + limit, Len(source)))

\* df = self.reader.read_chunk(...); if df.empty: break
read_chunk ==
    /\ ld.pc = "read"
    /\ \/ /\ NoFault
          /\ LET df == Chunk(ld.source, ld.lim, ld.offset)
             IN  ld' = [ld EXCEPT !.df = df,
                                  !.pc = IF df = <<>> THEN "done" ELSE "copy"]
       \/ /\ Fault
          /\ ld' = [ld EXCEPT !.pc = "raised", !.raisedAt = "read_chunk"]
    /\ UNCHANGED <<cfgVars, dbVars, fsVars, runVars, dl, svc, mp>>

\* A value of a row: missing (NULL in DuckDB, None or NaN in the frame), the
\* empty string, or another value.
Missing == [kind |-> "missing", v |-> 0]

EmptyString == [kind |-> "empty", v |-> 0]

Value(n) == [kind |-> "value", v |-> n]

\* df.where(pd.notnull(df), None); df.to_csv(buffer, index=False, header=False):
\* a missing value is written as na_rep, the empty text, like the empty
\* string; the writer (csv.QUOTE_MINIMAL) quotes an empty field only when it
\* is the only field of its line, where the line would be blank otherwise.
to_csv(row) ==
    [j \in 1..Len(row) |->
        [empty |-> row[j].kind # "value",
         v |-> row[j].v,
         quoted |-> row[j].kind # "value" /\ Len(row) = 1]]

\* COPY ... FROM STDIN WITH (FORMAT CSV, NULL ''): an unquoted empty field is
\* NULL, a quoted one is the empty string.
copy_expert(line) ==
    [j \in 1..Len(line) |->
        IF line[j].empty
        THEN IF line[j].quoted THEN EmptyString ELSE Missing
        ELSE Value(line[j].v)]

\* The rows of df as they arrive in the table.
Copied(df) == [i \in 1..Len(df) |-> copy_expert(to_csv(df[i]))]

\* Row i of a table of ncols columns without missing values and empty strings.
RowOf(i, ncols) == [j \in 1..ncols |-> Value(i)]

\* Mutant of NextOffset: the offset advances by one row too many.
NextOffsetSkipsRow(offset, n) == offset + n + 1

\* offset += n
NextOffset(offset, n) == offset + n

\* self.writer.copy_chunk(pg_table_name, df): a connection of its own, COPY,
\* conn.commit() -- the batch is durable when copy_chunk returns.  Then
\* n = len(df); total += n; offset += n; break when max_rows is reached.
\* When COPY or the commit raises, that batch is rolled back and the exception
\* leaves load_table; the batches committed before stay.  COPY names the
\* columns of df and raises when the table lacks one of them.
copy_chunk ==
    /\ ld.pc = "copy"
    /\ \/ /\ NoFault
          /\ ld.described \subseteq ld.columns
          /\ LET n == Len(ld.df)
                 total == ld.total + n
             IN  ld' = [ld EXCEPT
                         !.dest = @ \o Copied(ld.df),
                         !.total = total,
                         !.offset = NextOffset(@, n),
                         !.offsets = Append(@, ld.offset),
                         !.pc = IF ld.max_rows # NoMaxRows /\ total >= ld.max_rows
                                THEN "done" ELSE "head"]
       \/ /\ IF ld.described \subseteq ld.columns THEN Fault ELSE NoFault
          /\ ld' = [ld EXCEPT !.pc = "raised", !.raisedAt = "copy_chunk"]
    /\ UNCHANGED <<cfgVars, dbVars, fsVars, runVars, dl, svc, mp>>

\* ------------------------------------------------------------ the type mapper
\* Type strings are sequences of characters, so that upper(), startswith() and
\* the dictionary lookup are computed as the code computes them.
\* The characters of the type names used below.
TypeNames ==
  {
    "BOOLEAN", "TINYINT", "SMALLINT", "INTEGER", "BIGINT", "HUGEINT",
    "NUMERIC(38,0)", "REAL", "FLOAT", "DOUBLE", "DOUBLE PRECISION", "DECIMAL",
    "NUMERIC", "VARCHAR", "TEXT", "BLOB", "BYTEA", "DATE", "TIME",
    "TIMESTAMP", "TIMESTAMPTZ", "UUID", "DECIMAL(", "NUMERIC(", "JSON",
    "STRUCT", "INT", ""
  }

Chars ==
    [name \in TypeNames |->
        CASE name = "BOOLEAN" -> <<"B", "O", "O", "L", "E", "A", "N">>
          [] name = "TINYINT" -> <<"T", "I", "N", "Y", "I", "N", "T">>
          [] name = "SMALLINT" -> <<"S", "M", "A", "L", "L", "I", "N", "T">>
          [] name = "INTEGER" -> <<"I", "N", "T", "E", "G", "E", "R">>
          [] name = "BIGINT" -> <<"B", "I", "G", "I", "N", "T">>
          [] name = "HUGEINT" -> <<"H", "U", "G", "E", "I", "N", "T">>
          [] name = "NUMERIC(38,0)" -> <<"N", "U", "M", "E", "R", "I", "C", "(", "3", "8", ",", "0", ")">>
          [] name = "REAL" -> <<"R", "E", "A", "L">>
          [] name = "FLOAT" -> <<"F", "L", "O", "A", "T">>
          [] name = "DOUBLE" -> <<"D", "O", "U", "B", "L", "E">>
          [] name = "DOUBLE PRECISION" -> <<"D", "O", "U", "B", "L", "E", " ", "P", "R", "E", "C", "I", "S", "I", "O", "N">>
          [] name = "DECIMAL" -> <<"D", "E", "C", "I", "M", "A", "L">>
          [] name = "NUMERIC" -> <<"N", "U", "M", "E", "R", "I", "C">>
          [] name = "VARCHAR" -> <<"V", "A", "R", "C", "H", "A", "R">>
          [] name = "TEXT" -> <<"T", "E", "X", "T">>
          [] name = "BLOB" -> <<"B", "L", "O", "B">>
          [] name = "BYTEA" -> <<"B", "Y", "T", "E", "A">>
          [] name = "DATE" -> <<"D", "A", "T", "E">>
          [] name = "TIME" -> <<"T", "I", "M", "E">>
          [] name = "TIMESTAMP" -> <<"T", "I", "M", "E", "S", "T", "A", "M", "P">>
          [] name = "TIMESTAMPTZ" -> <<"T", "I", "M", "E", "S", "T", "A", "M", "P", "T", "Z">>
          [] name = "UUID" -> <<"U", "U", "I", "D">>
          [] name = "DECIMAL(" -> <<"D", "E", "C", "I", "M", "A", "L", "(">>
          [] name = "NUMERIC(" -> <<"N", "U", "M", "E", "R", "I", "C", "(">>
          [] name = "JSON" -> <<"J", "S", "O", "N">>
          [] name = "STRUCT" -> <<"S", "T", "R", "U", "C", "T">>
          [] name = "INT" -> <<"I", "N", "T">>
          [] name = "" -> <<>>]

LowerCase == <<"a", "b", "c", "d", "e", "f", "g", "h", "i", "j", "k", "l", "m",
               "n", "o", "p", "q", "r", "s", "t", "u", "v", "w", "x", "y", "z">>

UpperCase == <<"A", "B", "C", "D", "E", "F", "G", "H", "I", "J", "K", "L", "M",
               "N", "O", "P", "Q", "R", "S", "T", "U", "V", "W", "X", "Y", "Z">>

\* str.upper() on one character, and its inverse str.lower().
UpperChar(ch) ==
    IF \E i \in 1..Len(LowerCase) : LowerCase[i] = ch
    THEN UpperCase[CHOOSE i \in 1..Len(LowerCase) : LowerCase[i] = ch]
    ELSE ch

LowerChar(ch) ==
    IF \E i \in 1..Len(UpperCase) : UpperCase[i] = ch
    THEN LowerCase[CHOOSE i \in 1..Len(UpperCase) : UpperCase[i] = ch]
    ELSE ch

\* duck_type.upper()
Upper(str) == [i \in 1..Len(str) |-> UpperChar(str[i])]

Lower(str) == [i \in 1..Len(str) |-> LowerChar(str[i])]

Capitalize(str) == [i \in 1..Len(str) |-> IF i = 1 THEN str[i] ELSE LowerChar(str[i])]

\* base.startswith(prefix)
startswith(str, prefix) ==
    /\ Len(str) >= Len(prefix)
    /\ SubSeq(str, 1, Len(prefix)) = prefix

DUCK_TO_PG ==
    [k \in {"BOOLEAN", "TINYINT", "SMALLINT", "INTEGER", "BIGINT", "HUGEINT",
             "REAL", "FLOAT", "DOUBLE", "DECIMAL", "NUMERIC", "VARCHAR",
             "BLOB", "DATE", "TIME", "TIMESTAMP", "TIMESTAMPTZ", "UUID"} |->
        CASE k = "BOOLEAN" -> "BOOLEAN"
          [] k = "TINYINT" -> "SMALLINT"
          [] k = "SMALLINT" -> "SMALLINT"
          [] k = "INTEGER" -> "INTEGER"
          [] k = "BIGINT" -> "BIGINT"
          [] k = "HUGEINT" -> "NUMERIC(38,0)"
          [] k = "REAL" -> "REAL"
          [] k = "FLOAT" -> "REAL"
          [] k = "DOUBLE" -> "DOUBLE PRECISION"
          [] k = "DECIMAL" -> "NUMERIC"
          [] k = "NUMERIC" -> "NUMERIC"
          [] k = "VARCHAR" -> "TEXT"
          [] k = "BLOB" -> "BYTEA"
          [] k = "DATE" -> "DATE"
          [] k = "TIME" -> "TIME"
          [] k = "TIMESTAMP" -> "TIMESTAMP"
          [] k = "TIMESTAMPTZ" -> "TIMESTAMPTZ"
          [] k = "UUID" -> "UUID"]

\* Mutant of to_postgres: the dictionary is consulted with the string as given.
to_postgres_case_sensitive(duck_type) ==
    LET base == duck_type
    IN  IF startswith(base, Chars["DECIMAL("]) \/ startswith(base, Chars["NUMERIC("])
        THEN base
        ELSE IF \E k \in DOMAIN DUCK_TO_PG : Chars[k] = base
             THEN Chars[DUCK_TO_PG[CHOOSE k \in DOMAIN DUCK_TO_PG : Chars[k] = base]]
             ELSE Chars["TEXT"]

\* SchemaMapper.to_postgres
to_postgres(duck_type) ==
    LET base == Upper(duck_type)
    IN  IF startswith(base, Chars["DECIMAL("]) \/ startswith(base, Chars["NUMERIC("])
        THEN base
        ELSE IF \E k \in DOMAIN DUCK_TO_PG : Chars[k] = base
             THEN Chars[DUCK_TO_PG[CHOOSE k \in DOMAIN DUCK_TO_PG : Chars[k] = base]]
             ELSE Chars["TEXT"]

\* pg_type = SchemaMapper.to_postgres(duck_type), for one column of the table
\* that create_table_if_not_exists is about to create.
create_table_if_not_exists ==
    /\ mp.pc = "called"
    /\ mp' = [mp EXCEPT !.pc = "mapped", !.pg_type = to_postgres(mp.duck_type)]
    /\ UNCHANGED <<cfgVars, dbVars, fsVars, runVars, faults, dl, ld, svc>>

Digit == <<"0", "1", "2", "3", "4", "5", "6", "7", "8", "9">>

\* The decimal numeral of n < 100.
Numeral(n) ==
    IF n < 10 THEN <<Digit[n + 1]>>
    ELSE <<Digit[(n \div 10) + 1], Digit[(n % 10) + 1]>>

\* "(p,s)"
Parameters(p, s) == <<"(">> \o Numeral(p) \o <<",">> \o Numeral(s) \o <<")">>

ParameterLists == {Parameters(p, s) : p \in 1..MaxPrecision, s \in 0..MaxPrecision}

\* DECIMAL(p,s) or NUMERIC(p,s), in any letter case.
IsParameterized(str) ==
    \E ps \in ParameterLists :
        Upper(str) \in {Chars["DECIMAL"] \o ps, Chars["NUMERIC"] \o ps}

\* The type strings tried: every key of the table and some names that are not
\* in it, in three letter cases, alone or followed by a parameter list, an
\* array suffix, an unfinished parameter list or a blank.
Stems == {Chars[k] : k \in DOMAIN DUCK_TO_PG}
            \cup {Chars["TEXT"], Chars["JSON"], Chars["STRUCT"], Chars["INT"], Chars[""]}

Suffixes == ParameterLists
              \cup {ps \o <<"[", "]">> : ps \in ParameterLists}
              \cup {<<>>, <<"(">>, <<"(", "x">>, <<"[", "]">>, <<" ">>}

TypeStrings ==
    {c \o x : c \in UNION {{st, Lower(st), Capitalize(st)} : st \in Stems},
              x \in Suffixes}

\* ------------------------------------------------------- the specifications
Step(p) ==
    \/ StartRun(p)
    \/ MainMkdir(p)
    \/ download_all_available(p)
    \/ Construct(p)
    \/ ConstructFails(p)
    \/ InitializeDatabase(p)
    \/ InitializeDatabaseFails(p)
    \/ NoDataDir(p)
    \/ NoParquetFiles(p)
    \/ StartLoop(p)
    \/ LoopIteration(p)
    \/ ImportParquetCheck(p)
    \/ ReadParquet(p)
    \/ Begin(p)
    \/ CountBefore(p)
    \/ InsertRows(p)
    \/ InsertRowsFails(p)
    \/ CountAfter(p)
    \/ InsertLog(p)
    \/ InsertLogConflict(p)
    \/ InsertLogFails(p)
    \/ Commit(p)
    \/ CommitFails(p)
    \/ Except(p)
    \/ ExceptRaises(p)
    \/ LoopCount(p)
    \/ LoopEnd(p)
    \/ Close(p)
    \/ MainExcept(p)

\* One importer process, the single writer, making up to MaxRuns runs.
Init ==
    /\ backend \in {"postgres", "duckdb"}
    /\ entry \in {"script", "api", "call"}
    /\ backend = "duckdb" => entry # "api"
    /\ current_month = NumFiles
    /\ limits = [faults |-> MaxFaults, runs |-> MaxRuns]
    /\ tables \in BOOLEAN
    /\ columns = InitColumns
    /\ yellow_taxi_trips = <<>>
    /\ import_log = <<>>
    /\ data_dir_exists \in BOOLEAN
    /\ raw \in SUBSET Files
    /\ ~data_dir_exists => raw = {}
    /\ pc = [p \in Procs |-> "idle"]
    /\ loc = [p \in Procs |-> InitLoc]
    /\ tx = [p \in Procs |-> NoTx]
    /\ faults = 0
    /\ gh = [p \in Procs |-> InitGh]
    /\ prevFailed = {}
    /\ dl = NoDl /\ ld = NoLd /\ svc = NoSvc /\ mp = NoMp

Next == Step(1)

Spec == Init /\ [][Next]_vars

\* Two PostgresImporter runs at once on one database (two POST /pipeline/run,
\* or two copies of the script).  A DuckDB file admits one writing process, so
\* DuckDBImporter has no concurrent runs.
RaceStep(p) ==
    \/ StartRun(p)
    \/ MainMkdir(p)
    \/ download_all_available(p)
    \/ Construct(p)
    \/ ConstructFails(p)
    \/ InitializeDatabase(p)
    \/ InitializeDatabaseFails(p)
    \/ NoParquetFiles(p)
    \/ StartLoop(p)
    \/ LoopIteration(p)
    \/ ImportParquetCheck(p)
    \/ ReadParquet(p)
    \/ Begin(p)
    \/ CountBefore(p)
    \/ InsertRows(p)
    \/ InsertRowsFails(p)
    \/ CountAfter(p)
    \/ InsertLog(p)
    \/ InsertLogConflict(p)
    \/ InsertLogFails(p)
    \/ Commit(p)
    \/ CommitFails(p)
    \/ Except(p)
    \/ LoopCount(p)
    \/ LoopEnd(p)
    \/ Close(p)

InitRace ==
    /\ backend = "postgres"
    /\ entry \in {"script", "api"}
    /\ current_month = RaceFiles
    /\ limits = [faults |-> RaceFaults, runs |-> 1]
    /\ tables \in BOOLEAN
    /\ columns = InitColumns
    /\ yellow_taxi_trips = <<>>
    /\ import_log = <<>>
    /\ data_dir_exists = TRUE
    /\ raw \in SUBSET (1..RaceFiles)
    /\ pc = [p \in Procs |-> "idle"]
    /\ loc = [p \in Procs |-> InitLoc]
    /\ tx = [p \in Procs |-> NoTx]
    /\ faults = 0
    /\ gh = [p \in Procs |-> InitGh]
    /\ prevFailed = {}
    /\ dl = NoDl /\ ld = NoLd /\ svc = NoSvc /\ mp = NoMp

NextRace == \E p \in Procs : RaceStep(p)

SpecRace == InitRace /\ [][NextRace]_vars

\* One importer process whose runs are repeated, with the history of the
\* failures of the earlier runs.
RerunStep(p) ==
    \/ Rerun(p)
    \/ MainMkdir(p)
    \/ download_all_available(p)
    \/ Construct(p)
    \/ ConstructFails(p)
    \/ InitializeDatabase(p)
    \/ InitializeDatabaseFails(p)
    \/ NoDataDir(p)
    \/ NoParquetFiles(p)
    \/ StartLoop(p)
    \/ LoopIteration(p)
    \/ ImportParquetCheck(p)
    \/ ReadParquet(p)
    \/ Begin(p)
    \/ CountBefore(p)
    \/ InsertRows(p)
    \/ InsertRowsFails(p)
    \/ CountAfter(p)
    \/ InsertLog(p)
    \/ InsertLogConflict(p)
    \/ InsertLogFails(p)
    \/ Commit(p)
    \/ CommitFails(p)
    \/ Except(p)
    \/ ExceptRaises(p)
    \/ LoopCount(p)
    \/ LoopEnd(p)
    \/ Close(p)
    \/ MainExcept(p)

InitRerun ==
    /\ backend \in {"postgres", "duckdb"}
    /\ entry \in {"script", "api", "call"}
    /\ backend = "duckdb" => entry # "api"
    /\ current_month = NumFiles
    /\ limits = [faults |-> RerunFaults, runs |-> MaxRuns]
    /\ tables \in BOOLEAN
    /\ columns = InitColumns
    /\ yellow_taxi_trips = <<>>
    /\ import_log = <<>>
    /\ data_dir_exists \in BOOLEAN
    /\ raw \in SUBSET Files
    /\ ~data_dir_exists => raw = {}
    /\ pc = [p \in Procs |-> "idle"]
    /\ loc = [p \in Procs |-> InitLoc]
    /\ tx = [p \in Procs |-> NoTx]
    /\ faults = 0
    /\ gh = [p \in Procs |-> InitGh]
    /\ prevFailed = {}
    /\ dl = NoDl /\ ld = NoLd /\ svc = NoSvc /\ mp = NoMp

NextRerun == RerunStep(1)

SpecRerun == InitRerun /\ [][NextRerun]_vars

\* One call of NYCTaxiDataDownloader().download_all_available().
InitDownload ==
    /\ backend = "postgres"
    /\ entry = "api"
    /\ current_month = NumFiles
    /\ limits = [faults |-> MaxFaults, runs |-> MaxRuns]
    /\ tables = TRUE
    /\ columns = InitColumns
    /\ yellow_taxi_trips = <<>>
    /\ import_log = <<>>
    /\ data_dir_exists \in BOOLEAN
    /\ raw \in SUBSET Files
    /\ ~data_dir_exists => raw = {}
    /\ pc = [p \in Procs |-> "idle"]
    /\ loc = [p \in Procs |-> InitLoc]
    /\ tx = [p \in Procs |-> NoTx]
    /\ faults = 0
    /\ gh = [p \in Procs |-> InitGh]
    /\ prevFailed = {}
    /\ dl = NoDl /\ ld = NoLd /\ svc = NoSvc /\ mp = NoMp

NextDownload ==
    \/ NYCTaxiDataDownloader
    \/ download_month
    \/ RequestsGet
    \/ IterContent
    \/ RequestException
    \/ DownloadReturn

SpecDownload == InitDownload /\ [][NextDownload]_vars

\* The downloader, run again after a run that was cut short.
NextDownloadAgain ==
    \/ NextDownload
    \/ WriteCutShort

SpecDownloadAgain == InitDownload /\ [][NextDownloadAgain]_vars

\* The columns of the DuckDB table the loader copies.
SourceColumns == {"a", "b"}

\* One call of Loader.load_table: a source table of up to MaxSource rows, any
\* chunk_size from 0 to one more than that, max_rows unset or set, a
\* destination that is empty or holds a row.
InitLoader ==
    /\ backend = "postgres"
    /\ entry = "call"
    /\ current_month = NumFiles
    /\ limits = [faults |-> LoaderFaults, runs |-> MaxRuns]
    /\ tables = TRUE
    /\ columns = InitColumns
    /\ yellow_taxi_trips = <<>>
    /\ import_log = <<>>
    /\ data_dir_exists = TRUE
    /\ raw = {}
    /\ pc = [p \in Procs |-> "idle"]
    /\ loc = [p \in Procs |-> InitLoc]
    /\ tx = [p \in Procs |-> NoTx]
    /\ faults = 0
    /\ gh = [p \in Procs |-> InitGh]
    /\ prevFailed = {}
    /\ dl = NoDl /\ svc = NoSvc /\ mp = NoMp
    /\ \E n \in 0..MaxSource, c \in 0..(MaxSource + 1),
          m \in {NoMaxRows} \cup (0..(MaxSource + 1)),
          d \in {<<>>, <<RowOf(0, Cardinality(SourceColumns))>>} :
          ld = [NoLd EXCEPT !.pc = "called", !.chunk_size = c, !.max_rows = m,
                            !.source = [i \in 1..n |-> RowOf(i, Cardinality(SourceColumns))],
                            !.dest = d, !.pre = d,
                            !.described = SourceColumns,
                            !.columns = IF d = <<>> THEN {} ELSE SourceColumns]

NextLoader ==
    \/ load_table
    \/ LoopHead
    \/ read_chunk
    \/ copy_chunk

SpecLoader == InitLoader /\ [][NextLoader]_vars

\* The same call, which goes on as long as a statement of it is to be executed.
SpecLoaderFair == InitLoader /\ [][NextLoader]_vars /\ WF_vars(NextLoader)

\* The API beside the pipeline it runs: main.py creates the missing tables,
\* then requests are served while POST /pipeline/run imports.
InitApi ==
    /\ backend = "postgres"
    /\ entry = "api"
    /\ current_month = ApiFiles
    /\ limits = [faults |-> ApiFaults, runs |-> ApiRuns]
    /\ tables \in BOOLEAN
    /\ yellow_taxi_trips = <<>>
    /\ import_log = <<>>
    /\ data_dir_exists = TRUE
    /\ raw \in SUBSET (1..ApiFiles)
    /\ pc = [p \in Procs |-> "idle"]
    /\ loc = [p \in Procs |-> InitLoc]
    /\ tx = [p \in Procs |-> NoTx]
    /\ faults = 0
    /\ gh = [p \in Procs |-> InitGh]
    /\ prevFailed = {}
    /\ dl = NoDl /\ ld = NoLd /\ mp = NoMp
    /\ svc \in {[NoSvc EXCEPT !.id_column = c] : c \in IF tables THEN BOOLEAN ELSE {FALSE}}
    /\ columns = IF svc.id_column THEN ModelColumns ELSE InitColumns

\* run_pipeline is a route of the API: it runs once the API is up.
NextApi ==
    \/ create_all
    \/ get_trips
    \/ create_trip
    \/ update_trip
    \/ delete_trip
    \/ (svc.pc = "up" /\ Step(1))

SpecApi == InitApi /\ [][NextApi]_vars

\* The schema initialisations on tables that exist or not, with the columns
\* the initialisation derives now or with others: either an importer's runs
\* (its __init__ calls _initialize_database), or one call of load_table (it
\* calls create_table_if_not_exists) on a source of at most one row.
InitSchema ==
    /\ backend \in {"postgres", "duckdb"}
    /\ entry \in {"script", "api", "call"}
    /\ backend = "duckdb" => entry # "api"
    /\ current_month = NumFiles
    /\ yellow_taxi_trips = <<>>
    /\ import_log = <<>>
    /\ data_dir_exists \in BOOLEAN
    /\ pc = [p \in Procs |-> "idle"]
    /\ loc = [p \in Procs |-> InitLoc]
    /\ tx = [p \in Procs |-> NoTx]
    /\ faults = 0
    /\ gh = [p \in Procs |-> InitGh]
    /\ prevFailed = {}
    /\ dl = NoDl /\ svc = NoSvc /\ mp = NoMp
    /\ \/ /\ limits = [faults |-> SchemaFaults, runs |-> MaxRuns]
          /\ raw \in SUBSET Files
          /\ ~data_dir_exists => raw = {}
          /\ tables \in BOOLEAN
          /\ columns \in IF tables THEN {InitColumns, ModelColumns} ELSE {{}}
          /\ ld = NoLd
       \/ /\ limits = [faults |-> SchemaFaults, runs |-> 0]
          /\ backend = "postgres" /\ entry = "call"
          /\ data_dir_exists
          /\ raw = {}
          /\ tables = FALSE
          /\ columns = {}
          /\ \E n \in 0..1, described \in {{"a"}, SourceColumns},
                existing \in {{}, {"a"}, SourceColumns} :
             \E d \in {<<>>, <<RowOf(0, Cardinality(existing))>>} :
                /\ d # <<>> => existing # {}
                /\ ld = [NoLd EXCEPT !.pc = "called", !.chunk_size = 1,
                                     !.source = [i \in 1..n |-> RowOf(i, Cardinality(described))],
                                     !.dest = d, !.pre = d,
                                     !.described = described, !.columns = existing]

NextSchema ==
    \/ Step(1)
    \/ NextLoader

SpecSchema == InitSchema /\ [][NextSchema]_vars

\* The rows of a table of ncols columns: every value is missing, the empty
\* string or another value.
Rows(ncols) == [1..ncols -> {Missing, EmptyString, Value(1)}]

\* One call of Loader.load_table on a source table whose values matter: up to
\* MaxColumns columns, up to CopyRows rows, into a table that does not exist.
InitCopy ==
    /\ backend = "postgres"
    /\ entry = "call"
    /\ current_month = NumFiles
    /\ limits = [faults |-> LoaderFaults, runs |-> MaxRuns]
    /\ tables = TRUE
    /\ columns = InitColumns
    /\ yellow_taxi_trips = <<>>
    /\ import_log = <<>>
    /\ data_dir_exists = TRUE
    /\ raw = {}
    /\ pc = [p \in Procs |-> "idle"]
    /\ loc = [p \in Procs |-> InitLoc]
    /\ tx = [p \in Procs |-> NoTx]
    /\ faults = 0
    /\ gh = [p \in Procs |-> InitGh]
    /\ prevFailed = {}
    /\ dl = NoDl /\ svc = NoSvc /\ mp = NoMp
    /\ \E ncols \in 1..MaxColumns, n \in 0..CopyRows, c \in {1, CopyRows} :
          \E source \in [1..n -> Rows(ncols)] :
             ld = [NoLd EXCEPT !.pc = "called", !.chunk_size = c, !.source = source,
                               !.described = {Digit[j + 1] : j \in 1..ncols}]

SpecCopy == InitCopy /\ [][NextLoader]_vars

\* SchemaMapper.to_postgres applied to one type string.
InitMapper ==
    /\ backend = "postgres"
    /\ entry = "call"
    /\ current_month = NumFiles
    /\ limits = [faults |-> LoaderFaults, runs |-> MaxRuns]
    /\ tables = TRUE
    /\ columns = InitColumns
    /\ yellow_taxi_trips = <<>>
    /\ import_log = <<>>
    /\ data_dir_exists = TRUE
    /\ raw = {}
    /\ pc = [p \in Procs |-> "idle"]
    /\ loc = [p \in Procs |-> InitLoc]
    /\ tx = [p \in Procs |-> NoTx]
    /\ faults = 0
    /\ gh = [p \in Procs |-> InitGh]
    /\ prevFailed = {}
    /\ dl = NoDl /\ ld = NoLd /\ svc = NoSvc
    /\ \E t \in TypeStrings : mp = [NoMp EXCEPT !.pc = "called", !.duck_type = t]

NextMapper == create_table_if_not_exists

SpecMapper == InitMapper /\ [][NextMapper]_vars

\* One importer process whose transfers may be interrupted.
NextCancel == Step(1) \/ Interrupt(1) \/ CallerContinues(1)

SpecCancel == InitRerun /\ [][NextCancel]_vars

\* ------------------------------------------------------------ the properties
\* How many times row r stands in the committed yellow_taxi_trips.
Copies(r) == Cardinality({k \in 1..Len(yellow_taxi_trips) : yellow_taxi_trips[k] = r})

\* How many committed ledger rows name file f.
Entries(f) == Cardinality({i \in 1..Len(import_log) : import_log[i].file_name = f})

\* C1: in every reachable state, also after a failure at any step of a
\* transfer, a file that has an entry in import_log has every one of its rows
\* committed in yellow_taxi_trips; so a file whose transfer was only partly
\* done has no entry.
C1_LedgerEntryImpliesAllRows ==
    \A i \in 1..Len(import_log) :
        \A j \in 1..NRows(import_log[i].file_name) :
            Copies(<<import_log[i].file_name, j>>) >= 1

\* C1 witness: a transfer has failed in this run after writing part of a
\* file, and the ledger holds the entry of a file of MaxRows rows.
C1_Witness ==
    /\ gh[1].failed # {}
    /\ gh[1].written > 0
    /\ \E f \in Names(import_log) : NRows(f) = MaxRows

\* C2: when import_parquet has failed and returned False, the committed
\* yellow_taxi_trips and import_log are what they were when it was called,
\* and its connection holds no uncommitted write.
C2_FailureRestoresTables ==
    \A p \in Procs :
        (pc[p] = "returned" /\ gh[p].outcome = "failed") =>
            /\ ~loc[p].success
            /\ yellow_taxi_trips = gh[p].preTrips
            /\ import_log = gh[p].preLog
            /\ tx[p] = NoTx

\* C2 witness: import_parquet returned False after its transaction had
\* written rows, on a table that already held rows of another file.
C2_Witness ==
    /\ pc[1] = "returned"
    /\ gh[1].outcome = "failed"
    /\ gh[1].written > 0
    /\ gh[1].preTrips # <<>>
    /\ gh[1].preLog # <<>>

\* C3: when a second run over the same files ends and no exception was raised
\* in either run, import_log holds exactly one entry per file, the run changed
\* neither yellow_taxi_trips nor import_log, and it returns 0.
C3_SecondRunChangesNothing ==
    (pc[1] = "done" /\ loc[1].run >= 2 /\ faults = 0) =>
        /\ \A f \in raw : Entries(f) = 1
        /\ yellow_taxi_trips = gh[1].startTrips
        /\ import_log = gh[1].startLog
        /\ loc[1].ret = 0

\* C3 witness: the second run ended without any exception, over a directory
\* of NumFiles files that the first run imported.
C3_Witness ==
    /\ pc[1] = "done"
    /\ loc[1].run = 2
    /\ faults = 0
    /\ gh[1].found = Files
    /\ gh[1].skipped = Files
    /\ Len(import_log) = NumFiles

\* C4: two runs that import the same file at once, both having passed the
\* is_file_imported check: the primary key of import_log rejects the second
\* ledger insert and the second transaction's rows go with it.  In every
\* state each file has at most one ledger entry and each of its rows is
\* committed exactly as many times as the file has entries; when both runs
\* have ended and nothing else raised, every file they found has its one entry.
C4_DuplicateImportRejected ==
    /\ \A f \in 1..current_month :
          /\ Entries(f) <= 1
          /\ \A j \in 1..NRows(f) : Copies(<<f, j>>) = Entries(f)
    /\ ((\A p \in Procs : pc[p] = "done") /\ faults = 0) =>
          \A p \in Procs : \A f \in gh[p].found : Entries(f) = 1

\* C4 witness: with no fault at all, a run had passed the check (the ledger
\* held no entry and the lookup succeeded), wrote every row of the file, and
\* import_parquet returned False; the file has its one entry, from the other run.
C4_Witness ==
    \E p \in Procs :
        /\ pc[p] = "returned"
        /\ gh[p].outcome = "failed"
        /\ ~gh[p].preHas /\ ~gh[p].lookupFailed
        /\ faults = 0
        /\ gh[p].written = NRows(loc[p].file_path)
        /\ gh[p].written > 0
        /\ Entries(loc[p].file_path) = 1

\* C5 as stated: import_parquet never writes rows of F inside a transaction
\* that began after another run committed the ledger entry of F.
C5_CheckRevalidatedAtBegin ==
    \A p \in Procs :
        gh[p].stale => pc[p] \notin {"count_after", "insert_log", "commit"}

\* C5 as amended: the ledger is looked up once, before the transaction opens,
\* and not again; a transaction that began after the entry of F was committed
\* may write rows of F, but it never reaches its commit and import_parquet
\* does not return True from it: the primary key rejects its ledger insert.
C5_StaleTransactionNeverCommits ==
    \A p \in Procs :
        gh[p].stale =>
            /\ pc[p] # "commit"
            /\ gh[p].outcome # "imported"

\* C5 witness: with no fault, a transaction that began after the other run had
\* committed the entry wrote the rows of the file and was rolled back.
C5_Witness ==
    \E p \in Procs :
        /\ gh[p].stale
        /\ faults = 0
        /\ pc[p] = "returned"
        /\ gh[p].outcome = "failed"
        /\ gh[p].written > 0

C7_RowCountFidelity ==
    \A p \in Procs :
        (pc[p] = "returned" /\ gh[p].outcome = "imported") =>
            /\ Len(yellow_taxi_trips) = Len(gh[p].preTrips) + NRows(loc[p].file_path)
            /\ loc[p].count_before = Len(gh[p].preTrips)
            /\ loc[p].rows_imported = Len(yellow_taxi_trips) - loc[p].count_before
            /\ \E i \in 1..Len(import_log) :
                  /\ import_log[i].file_name = loc[p].file_path
                  /\ import_log[i].rows_imported = NRows(loc[p].file_path)

\* C7 witness: a file of MaxRows rows was imported into a table that held
\* rows already.
C7_Witness ==
    /\ pc[1] = "returned"
    /\ gh[1].outcome = "imported"
    /\ NRows(loc[1].file_path) = MaxRows
    /\ gh[1].preTrips # <<>>

\* A run of p has ended: it returned, or left by an exception or by sys.exit.
Ended(p) == pc[p] \in {"done", "exited"} /\ loc[p].run > 0

\* C8 as stated: when a run on an empty ledger ends, every file of the batch
\* whose import_parquet did not fail is recorded in import_log, whatever
\* happened to the other files, and every file that failed has no entry.
C8_FailureDoesNotStopLoop ==
    \A p \in Procs :
        (Ended(p) /\ gh[p].startLog = <<>>) =>
            \A f \in gh[p].found :
                (f \in Names(import_log)) <=> (f \notin gh[p].failed)

\* C9 as stated: after _initialize_database failed, the run calls
\* import_parquet for no file.
C9_NoLoadAfterInitFailure ==
    \A p \in Procs : gh[p].initFailed => gh[p].calls = 0

C12_NoExceptionEscapes ==
    \A p \in Procs : pc[p] # "escaped" /\ gh[p].outcome # "raised"

\* C14: clean retry.  When import_parquet failed for file F in an earlier run
\* and a later call of import_parquet for F raises nothing (the tables exist),
\* the call returns True and afterwards F has exactly one ledger entry, which
\* records all its rows, and each row of F is in yellow_taxi_trips exactly
\* once; the call imports F unless F was recorded already.  No file has a
\* duplicated or a missing row: the tables are those of first-attempt imports.
C14_CleanRetry ==
    \A p \in Procs :
        (pc[p] = "returned" /\ loc[p].file_path \in prevFailed
             /\ faults = gh[p].callFaults /\ tables) =>
            /\ loc[p].success
            /\ gh[p].outcome = IF gh[p].preHas THEN "skipped" ELSE "imported"
            /\ Entries(loc[p].file_path) = 1
            /\ \E i \in 1..Len(import_log) :
                  /\ import_log[i].file_name = loc[p].file_path
                  /\ import_log[i].rows_imported = NRows(loc[p].file_path)
            /\ \A f \in Files :
                  /\ Entries(f) <= 1
                  /\ \A j \in 1..NRows(f) : Copies(<<f, j>>) = Entries(f)

\* C14 witness: a file of MaxRows rows whose import had failed in an earlier
\* run, after writing rows, is imported by a call that raises nothing.
C14_Witness ==
    /\ pc[1] = "returned"
    /\ loc[1].file_path \in prevFailed
    /\ faults = gh[1].callFaults
    /\ gh[1].outcome = "imported"
    /\ NRows(loc[1].file_path) = MaxRows

\* C17: is_file_imported is a pure lookup.  Both of its calls (the check of
\* the loop and the check at the head of import_parquet) leave the tables and
\* the open transactions unchanged; the answer is True exactly when the read
\* succeeds and import_log holds the file's entry; when the read raises the
\* answer is False, no exception leaves the call, and import_parquet goes on
\* to attempt the import.
C17_LookupIsPure ==
    [][\A p \in Procs :
          /\ (pc[p] = "loop" /\ pc'[p] = "import_parquet") =>
                /\ dbVars' = dbVars /\ tx' = tx
                /\ loc'[p].was_already_imported =
                      (tables /\ faults' = faults /\ LedgerHas(loc'[p].file_path))
          /\ (pc[p] = "import_parquet" /\ pc'[p] # "import_parquet") =>
                /\ dbVars' = dbVars /\ tx' = tx
                /\ pc'[p] \in {"returned", FirstInTry}
                /\ (pc'[p] = "returned") =
                      (tables /\ faults' = faults /\ LedgerHas(loc[p].file_path))
                /\ loc'[p].success = (pc'[p] = "returned")
      ]_vars

\* C17 witness: the lookup at the head of import_parquet raised while
\* import_log held the file's entry; the answer was False and the import is
\* being attempted.
C17_Witness ==
    /\ pc[1] = FirstInTry
    /\ tables
    /\ gh[1].lookupFailed
    /\ gh[1].preHas
    /\ ~loc[1].success

\* C19 as stated: after a transfer was interrupted the committed tables are
\* what they were when it began (the files completed earlier are untouched),
\* the importer holds no open transaction when it turns to another file or
\* ends, and it can still import: a later call of import_parquet that raises
\* nothing, for a file without entry, imports the file.
C19_InterruptLeavesImporterUsable ==
    \A p \in Procs :
        /\ gh[p].outcome = "interrupted" =>
              /\ yellow_taxi_trips = gh[p].preTrips
              /\ import_log = gh[p].preLog
        /\ pc[p] \in {"loop", "import_parquet", "close", "done", "exited"} =>
              tx[p] = NoTx
        /\ (pc[p] = "returned" /\ faults = gh[p].callFaults /\ tables
                /\ ~gh[p].preHas) =>
              gh[p].outcome = "imported"

\* The months in a list, and whether a list of months is strictly ascending.
Months(list) == {list[i] : i \in 1..Len(list)}

Ascending(list) == \A i, j \in 1..Len(list) : i < j => list[i] < list[j]

\* C16: the download step.  No request is made for a month whose file
\* exists, and that file stays; after a failed fetch no partial file is left
\* and the month is not in the list; the loop goes on after a failure to the
\* last month; the list returned holds exactly the months whose file is
\* present (found or fetched), in ascending order.
C16_DownloadStep ==
    /\ dl.fetched \cap dl.pre = {}
    /\ dl.pc # "idle" => dl.pre \subseteq raw
    /\ Ascending(dl.downloaded_files)
    /\ dl.pc \in {"loop", "done"} =>
          /\ ~dl.partial
          /\ raw = dl.pre \cup (dl.fetched \cap raw)
          /\ Months(dl.downloaded_files) = {m \in raw : m < dl.month}
          /\ \A m \in dl.fetched \ raw : ~file_exists(m)
    /\ dl.pc = "done" =>
          /\ dl.month = current_month + 1
          /\ Months(dl.downloaded_files) = raw
          /\ Months(dl.downloaded_files) = dl.pre \cup {m \in dl.fetched : m \in raw}

\* C16 witness: the call returned after the fetch of one month failed and a
\* later month was fetched; one file was there before.
C16_Witness ==
    /\ dl.pc = "done"
    /\ faults > 0
    /\ dl.pre # {}
    /\ \E m \in dl.fetched \ raw : \E n \in dl.fetched \cap raw : m < n

\* C13 as stated: the batches of one transfer are one atomic unit: when
\* copy_chunk has failed on a batch after the first, the destination table
\* holds none of the rows of the batches before it.
C13_ChunkedTransferAtomic ==
    (ld.pc = "raised" /\ ld.raisedAt = "copy_chunk") => ld.dest = ld.pre

\* C18: batch-partition independence.  With max_rows unset and chunk_size >= 1,
\* a call of load_table that ends has appended the source rows to the
\* destination, each once and in source order, whatever chunk_size is; at any
\* moment the batches copied are those at the offsets 0, c, 2c, ... in that
\* order and the destination holds the source rows before the current offset.
C18_BatchPartitionIndependence ==
    (ld.max_rows = NoMaxRows /\ ld.chunk_size >= 1) =>
        /\ \A i \in 1..Len(ld.offsets) : ld.offsets[i] = (i - 1) * ld.chunk_size
        /\ ld.pc \in {"head", "read", "copy", "raised", "done"} =>
              /\ ld.offset <= Len(ld.source)
              /\ ld.dest = ld.pre \o SubSeq(ld.source, 1, ld.offset)
        /\ ld.pc = "done" => ld.dest = ld.pre \o ld.source

\* C18 witness: a source of MaxSource rows was copied in batches of two rows,
\* the last batch short, into a destination that held a row.
C18_Witness ==
    /\ ld.pc = "done"
    /\ ld.max_rows = NoMaxRows
    /\ ld.chunk_size = 2
    /\ Len(ld.source) = MaxSource
    /\ Len(ld.offsets) >= 2
    /\ ld.pre # <<>>

\* C20 as stated: to_postgres answers the table's entry for a known type in
\* any letter case, the parameterized type itself (up to letter case) for
\* DECIMAL(p,s) and NUMERIC(p,s), and TEXT for every other string.
C20_TextForEveryOtherString ==
    mp.pc = "mapped" =>
        LET t == mp.duck_type
        IN  IF \E k \in DOMAIN DUCK_TO_PG : Upper(t) = Chars[k]
            THEN \E k \in DOMAIN DUCK_TO_PG :
                     Upper(t) = Chars[k] /\ mp.pg_type = Chars[DUCK_TO_PG[k]]
            ELSE IF IsParameterized(t)
                 THEN Upper(mp.pg_type) = Upper(t)
                 ELSE mp.pg_type = Chars["TEXT"]

\* C20 amended: to_postgres is total and answers, for a type string t,
\*   the upper-case form of t when that form starts with DECIMAL( or NUMERIC(,
\*     whatever follows the parenthesis;
\*   else the table's entry when the upper-case form of t is a key;
\*   else TEXT.
\* So DECIMAL(p,s) and NUMERIC(p,s) come back in upper case with p and s kept,
\* and a name that is in neither case is TEXT.
C20_PrefixThenTableThenText ==
    mp.pc = "mapped" =>
        LET t == mp.duck_type
            u == Upper(t)
            parameterized == \/ (Len(u) >= 8 /\ SubSeq(u, 1, 8) = Chars["DECIMAL("])
                             \/ (Len(u) >= 8 /\ SubSeq(u, 1, 8) = Chars["NUMERIC("])
        IN  /\ parameterized => mp.pg_type = u
            /\ IsParameterized(t) => mp.pg_type = u
            /\ (~parameterized) =>
                  /\ \A k \in DOMAIN DUCK_TO_PG :
                        u = Chars[k] => mp.pg_type = Chars[DUCK_TO_PG[k]]
                  /\ (\A k \in DOMAIN DUCK_TO_PG : u # Chars[k]) =>
                        mp.pg_type = Chars["TEXT"]

\* C20 witness: a key of the table written in lower case was mapped to its
\* entry, which is not TEXT.
C20_Witness ==
    /\ mp.pc = "mapped"
    /\ mp.duck_type = Lower(Chars["DOUBLE"])
    /\ mp.pg_type = Chars["DOUBLE PRECISION"]

\* The step in which import_parquet commits its transaction.
ImportCommitStep == pc[1] = "commit" /\ pc'[1] = "returned"

\* C15 as stated: only import_parquet changes the rows of yellow_taxi_trips
\* and the entries of import_log; every other operation leaves both unchanged.
C15_OnlyImportWrites ==
    [][(yellow_taxi_trips' # yellow_taxi_trips \/ import_log' # import_log)
          => ImportCommitStep]_vars

\* C15 amended: import_log is changed only by the commit of import_parquet.
\* yellow_taxi_trips is changed only by that commit, which appends the rows
\* of its file, or by a create_trip, update_trip or delete_trip of the API,
\* which adds, replaces or removes one row -- an imported row as well.  The
\* schema initialisations (create_all, _initialize_database) and the queries
\* change no row and no entry.
C15_ImportAndCrudWrite ==
    [][/\ import_log' # import_log => ImportCommitStep
       /\ yellow_taxi_trips' # yellow_taxi_trips =>
            \/ ImportCommitStep
            \/ /\ svc'.requests = svc.requests + 1
               /\ \/ /\ svc'.op = "create_trip"
                     /\ Len(yellow_taxi_trips') = Len(yellow_taxi_trips) + 1
                  \/ /\ svc'.op = "update_trip"
                     /\ Len(yellow_taxi_trips') = Len(yellow_taxi_trips)
                  \/ /\ svc'.op = "delete_trip"
                     /\ Len(yellow_taxi_trips') = Len(yellow_taxi_trips) - 1
       /\ tables' # tables =>
            yellow_taxi_trips' = yellow_taxi_trips /\ import_log' = import_log]_vars

\* C15 witness: a file was imported and recorded, and a DELETE of the API has
\* then removed one of its rows.
C15_Witness ==
    /\ svc.op = "delete_trip"
    /\ \E f \in Files :
          /\ Entries(f) = 1
          /\ \E i \in 1..NRows(f) : Copies(<<f, i>>) = 0

\* C21: table creation is check-or-create.  A schema initialisation that finds
\* its table existing leaves the table's columns, its rows and the ledger as
\* they are, also when the columns it derives now are others, and the
\* existence raises nothing: _initialize_database returns to __init__, which
\* goes on, and create_table_if_not_exists lets load_table reach its loop
\* unless a statement failed for another reason.
C21_CheckOrCreate ==
    [][/\ (pc[1] = "initialize" /\ pc'[1] # "initialize" /\ tables) =>
            /\ pc'[1] = "import_all"
            /\ tables' /\ columns' = columns
            /\ yellow_taxi_trips' = yellow_taxi_trips
            /\ import_log' = import_log
       /\ (ld.pc = "called" /\ ld'.pc # "called" /\ ld.columns # {}) =>
            /\ ld'.columns = ld.columns
            /\ ld'.dest = ld.dest
            /\ faults' = faults => ld'.pc = "head"]_vars

\* C21 witness: in its second run the Postgres importer initialised the schema
\* of a table that held rows and had columns other than those derived now.
C21_Witness ==
    /\ backend = "postgres"
    /\ pc[1] = "import_all"
    /\ loc[1].run = 2
    /\ ~gh[1].initFailed
    /\ yellow_taxi_trips # <<>>
    /\ import_log # <<>>
    /\ columns # DerivedColumns

\* C22 as stated: a missing value of a source row is NULL in the row that
\* copy_chunk wrote, never the empty string or another value.
C22_MissingArrivesAsNull ==
    \A i \in 1..Len(ld.dest) : \A j \in 1..Len(ld.dest[i]) :
        ld.source[i][j] = Missing => ld.dest[i][j] = Missing

\* C29 as stated: an empty string of a source row is the empty string in the
\* row that copy_chunk wrote, not NULL.
C29_EmptyStringArrivesAsEmptyString ==
    \A i \in 1..Len(ld.dest) : \A j \in 1..Len(ld.dest[i]) :
        ld.source[i][j] = EmptyString => ld.dest[i][j] = EmptyString

\* C23: ordering within one run of run_pipeline.  download_all_available is
\* called once and has returned, and _initialize_database has run once, when
\* the first import_parquet is called; while the download or the
\* initialisation is still to come no import_parquet has been called; neither
\* runs a second time in the run.
C23_DownloadThenInitialiseThenLoad ==
    entry = "api" =>
        /\ gh[1].downloads <= 1 /\ gh[1].inits <= 1
        /\ gh[1].calls > 0 => gh[1].downloads = 1 /\ gh[1].inits = 1
        /\ pc[1] = "download" => gh[1].inits = 0 /\ gh[1].calls = 0
        /\ pc[1] \in {"construct", "initialize"} =>
              gh[1].downloads = 1 /\ gh[1].inits = 0 /\ gh[1].calls = 0

\* C23 witness: a run of run_pipeline has called import_parquet for two files
\* and imported one, after one download step and one initialisation.
C23_Witness ==
    /\ entry = "api"
    /\ gh[1].calls >= 2
    /\ gh[1].imported # {}
    /\ gh[1].downloads = 1
    /\ gh[1].inits = 1

\* C24 as stated: the number import_all_parquet_files returns is the number
\* of ledger entries its call created, also beside another pipeline run.
C24_ReturnCountsEntriesCreated ==
    \A p \in Procs :
        pc[p] \in {"close", "done"} /\ loc[p].ret >= 0 =>
            loc[p].ret = Cardinality(gh[p].imported)

\* C25 as stated: the rows_imported recorded for a file is the number of rows
\* of that file its transaction wrote, also when a create_trip or delete_trip
\* of the API commits while the import is in flight.
C25_RowsImportedIsOwnRows ==
    \A i \in 1..Len(import_log) :
        import_log[i].rows_imported = NRows(import_log[i].file_name)

\* The sum of rows_imported over the first n entries of import_log.
RECURSIVE SumRowsImported(_)
SumRowsImported(n) ==
    IF n = 0 THEN 0 ELSE import_log[n].rows_imported + SumRowsImported(n - 1)

\* C26: accounting.  With one importer, tables that start empty and no other
\* writer, after any sequence of import_parquet calls -- imported, skipped,
\* failed -- yellow_taxi_trips holds as many rows as the entries of import_log
\* add up to, and no file has two entries.
C26_RowCountIsSumOfLedger ==
    /\ Len(yellow_taxi_trips) = SumRowsImported(Len(import_log))
    /\ \A f \in Files : Entries(f) <= 1

\* C26 witness: after an import that failed with rows written, an import that
\* was skipped and two that committed, the counts agree and are not zero.
C26_Witness ==
    /\ gh[1].failed # {}
    /\ Len(import_log) >= 2
    /\ loc[1].run = 2
    /\ gh[1].skipped # {}
    /\ Len(yellow_taxi_trips) > 0

\* C27 as stated: every file download_month finds existing, and so skips and
\* lists for the importer, is a complete download, also after a run that was
\* cut short while it wrote a file.
C27_ExistingFileIsComplete ==
    \A m \in Months(dl.downloaded_files) : m \notin dl.truncated

\* The number of rows load_table is to copy from the source.
Wanted == IF ld.max_rows = NoMaxRows THEN Len(ld.source)
          ELSE Min(Len(ld.source), ld.max_rows)

\* The number of rows of the batch copied at offsets[i].
BatchSize(i) ==
    (IF i < Len(ld.offsets) THEN ld.offsets[i + 1] ELSE ld.offset) - ld.offsets[i]

\* C28: for every chunk_size >= 1 and every max_rows, load_table ends (it
\* returns, or an exception leaves it); when it returns it has copied the
\* first min(N, max_rows) rows of the source in source order (the N rows when
\* max_rows is None, none when max_rows = 0), and no batch it copied had more
\* than chunk_size rows.
C28_TerminatesWithMinRows ==
    /\ [](ld.chunk_size >= 1 =>
            /\ \A i \in 1..Len(ld.offsets) : BatchSize(i) \in 1..ld.chunk_size
            /\ ld.total <= Wanted
            /\ ld.pc = "done" =>
                  /\ ld.total = Wanted
                  /\ ld.dest = ld.pre \o SubSeq(ld.source, 1, Wanted)
                  /\ ld.max_rows = 0 => ld.dest = ld.pre /\ ld.offsets = <<>>)
    /\ (ld.chunk_size >= 1 => <>(ld.pc \in {"done", "raised"}))

\* C28 witness: load_table returned having copied two of three rows, in one
\* batch cut down from chunk_size to what max_rows left.
C28_Witness ==
    /\ ld.pc = "done"
    /\ ld.chunk_size = MaxSource
    /\ ld.max_rows = MaxSource - 1
    /\ Len(ld.source) = MaxSource
    /\ ld.total = MaxSource - 1
    /\ Len(ld.offsets) = 1

====
